---------------------------- MODULE Spec2Model ----------------------------
(***************************************************************************)
(* The bucketized oplog engine of powersync-sqlite-core:                   *)
(*   crates/core/src/operations.rs  insert_operation,                      *)
(*       insert_bucket_operations, clear_remove_ops,                       *)
(*       delete_pending_buckets, delete_bucket                             *)
(*   crates/core/src/sync_local.rs  can_update_local, sync_local           *)
(* The tables are the state; every entry point is one action, run inside   *)
(* the caller's transaction.                                               *)
(***************************************************************************)
EXTENDS Integers, Sequences, FiniteSets, Bags, TLC

VARIABLES
    ps_buckets,   \* name -> [last_op, last_applied_op, target_op, add_checksum, pending_delete]
    ps_oplog,     \* bag of rows [bucket, op_id, op, key, row_type, row_id, data, hash, superseded]
    ps_data,      \* <<table, id>> -> data : the ps_data__<type> tables
    ps_untyped,   \* <<type, id>> -> data
    ps_crud,      \* number of rows of the local write queue
    ps_kv,        \* key -> value
    tables,       \* the names of the ps_data_* tables in sqlite_master
    uuids,        \* number of uuids drawn by delete_bucket
    last,         \* the last entry-point call and what it returned
    srv           \* history: what the server has sent, per bucket name

vars == <<ps_buckets, ps_oplog, ps_data, ps_untyped, ps_crud, ps_kv, tables, uuids, last, srv>>
db == <<ps_buckets, ps_oplog, ps_data, ps_untyped, ps_crud, ps_kv, tables>>

(***************************************************************************)
(* Bounds of the model.                                                    *)
(***************************************************************************)
\* the highest op_id the server sends
MaxOpId == 2
\* the highest op_id the server sends when it sends only PUT and REMOVE
MaxRowOpId == 3
\* the most operations one insert_operation envelope carries
MaxBatch == 2
\* the most delete_bucket calls (uuids drawn)
MaxDelete == 1
\* the most re-deliveries of a suffix
MaxRedeliver == 1
\* the highest last_op and target_op of the bucket rows drawn for the gate
MaxGateOp == 1
\* the most operations of the two batches the server sends at once to A and B
MaxPair == 3
\* the highest op_id the server sends when it sends checksums near the 32-bit limits
MaxSumOpId == 3

(***************************************************************************)
(* Values.                                                                 *)
(***************************************************************************)
\* SQL NULL, a JSON null, an absent JSON field
NULL == "NULL"

\* the kind codes stored in ps_oplog.op
OP_MOVE == 2
OP_PUT == 3
OP_REMOVE == 4

\* the bucket of local writes, named in can_update_local
LocalBucket == "$local"

\* buckets the server sends
ServerBuckets == {"A", "B"}

\* the rows the server's operations name
RowTypes == {"t"}
RowIds == {"a"}

\* ps_buckets column defaults of INSERT OR IGNORE INTO ps_buckets(name)
DefaultBucket ==
    [last_op |-> 0, last_applied_op |-> 0, target_op |-> 0,
     add_checksum |-> 0, pending_delete |-> 0]

(***************************************************************************)
(* Bags of rows: the SQL statements used on ps_oplog.                      *)
(***************************************************************************)
NoRows == [r \in {} |-> 0]

\* INSERT one row
InsertRow(B, row) ==
    [r \in DOMAIN B \cup {row} |->
        IF r \in DOMAIN B THEN (IF r = row THEN B[r] + 1 ELSE B[r]) ELSE 1]

\* UPDATE ... SET ... WHERE: the rows S of B become the rows f[r]
UpdateRows(B, S, f) ==
    LET G(r) == IF r \in S THEN f[r] ELSE r
        T == {G(r) : r \in DOMAIN B}
    IN  [x \in T |-> BagCardinality([q \in {r \in DOMAIN B : G(r) = x} |-> B[q]])]

\* DELETE ... WHERE: the rows S of B are deleted
DeleteRows(B, S) == [r \in DOMAIN B \ S |-> B[r]]

RECURSIVE SumHashOf(_, _)
SumHashOf(B, S) ==
    IF S = {} THEN 0
    ELSE LET r == CHOOSE x \in S : TRUE
         IN  B[r] * r.hash + SumHashOf(B, S \ {r})

\* SELECT IFNULL(SUM(hash), 0) ... WHERE: over the rows S of B
SumHash(B, S) == SumHashOf(B, S \cap DOMAIN B)

Max(S) == CHOOSE x \in S : \A y \in S : y <= x


(***************************************************************************)
(* operations.rs: insert_bucket_operations.                                *)
(* An operation is [op_id, op, object_type, object_id, checksum, data,     *)
(* subkey], the fields json_extract reads; an absent field is NULL.        *)
(***************************************************************************)
\* the data of a MOVE operation that carries a target
TargetJson(t) == "{\"target\":" \o ToString(t) \o "}"

\* the targets a MOVE of the model may carry
Targets == 0..(MaxOpId + 1)

\* ifnull(cast(json_extract(data, '$.target') as integer), 0)
TargetOf(data) ==
    IF \E t \in Targets : data = TargetJson(t)
    THEN CHOOSE t \in Targets : data = TargetJson(t)
    ELSE 0

\* format!("{}/{}/{}", object_type, object_id, subkey), or "" without a row
KeyOf(o) ==
    IF o.object_type # NULL /\ o.object_id # NULL
    THEN o.object_type \o "/" \o o.object_id \o "/"
            \o (IF o.subkey # NULL THEN o.subkey ELSE "null")
    ELSE ""

\* supersede_statement leaving the earlier entry live
SupersedeNothing(oplog, bucket, key) == oplog

\* supersede_statement without ps_oplog.bucket = ?1
SupersedeAnyBucket(oplog, bucket, key) ==
    LET S == {r \in DOMAIN oplog : r.superseded = 0 /\ r.key = key}
    IN  UpdateRows(oplog, S,
            [r \in S |-> [r EXCEPT !.superseded = 1, !.op = OP_MOVE, !.data = NULL]])

\* supersede_statement
Supersede(oplog, bucket, key) ==
    LET S == {r \in DOMAIN oplog : r.superseded = 0 /\ r.bucket = bucket /\ r.key = key}
    IN  UpdateRows(oplog, S,
            [r \in S |-> [r EXCEPT !.superseded = 1, !.op = OP_MOVE, !.data = NULL]])

\* the row insert_statement writes for a PUT, REMOVE or MOVE
NewRow(bucket, o) ==
    LET has == o.object_type # NULL /\ o.object_id # NULL
        key == KeyOf(o)
    IN  [bucket     |-> bucket,
         op_id      |-> o.op_id,
         op         |-> IF o.op = "MOVE" THEN OP_MOVE
                        ELSE IF o.op = "PUT" THEN OP_PUT ELSE OP_REMOVE,
         key        |-> IF key = "" THEN NULL ELSE key,
         row_type   |-> IF has THEN o.object_type ELSE NULL,
         row_id     |-> IF has THEN o.object_id ELSE NULL,
         data       |-> o.data,
         hash       |-> o.checksum,
         superseded |-> IF o.op = "MOVE" THEN 1 ELSE 0]

\* bucket_target_statement without MAX(..., ps_buckets.target_op)
BucketTargetOverwrites(buckets, bucket, data) ==
    [buckets EXCEPT ![bucket].target_op = TargetOf(data)]

\* bucket_target_statement
BucketTarget(buckets, bucket, data) ==
    [buckets EXCEPT ![bucket].target_op =
        IF TargetOf(data) > @ THEN TargetOf(data) ELSE @]

\* the PUT / REMOVE / MOVE branch of the loop; st = [oplog, buckets]
PutRemoveMove(st, bucket, o) ==
    LET has  == o.object_type # NULL /\ o.object_id # NULL
        log1 == IF has THEN Supersede(st.oplog, bucket, KeyOf(o)) ELSE st.oplog
        log2 == InsertRow(log1, NewRow(bucket, o))
    IN  [oplog   |-> log2,
         buckets |-> IF o.op = "MOVE" /\ o.data # NULL
                     THEN BucketTarget(st.buckets, bucket, o.data)
                     ELSE st.buckets]

\* the CLEAR branch of the loop
Clear(st, bucket, o) ==
    LET S == {r \in DOMAIN st.oplog :
                (r.op = OP_PUT \/ r.op = OP_REMOVE) /\ r.bucket = bucket}
    IN  [oplog   |-> UpdateRows(st.oplog, S,
                        [r \in S |-> [r EXCEPT !.op = OP_REMOVE, !.data = NULL, !.hash = 0]]),
         buckets |-> [st.buckets EXCEPT ![bucket].last_applied_op = 0,
                                        ![bucket].add_checksum = o.checksum]]

\* one iteration of the loop over the batch
ApplyOp(st, bucket, o) ==
    IF o.op \in {"PUT", "REMOVE", "MOVE"} THEN PutRemoveMove(st, bucket, o)
    ELSE IF o.op = "CLEAR" THEN Clear(st, bucket, o)
    ELSE st

RECURSIVE ApplyOps(_, _, _, _)
ApplyOps(st, bucket, ops, i) ==
    IF i > Len(ops) THEN st
    ELSE ApplyOps(ApplyOp(st, bucket, ops[i]), bucket, ops, i + 1)

\* compaction that deletes the superseded entries without the add_checksum update
CompactForgets(st, bucket, first_op, last_op) ==
    [st EXCEPT !.oplog = DeleteRows(st.oplog,
        {r \in DOMAIN st.oplog : r.superseded = 1 /\ r.bucket = bucket
                                    /\ r.op_id >= first_op /\ r.op_id <= last_op})]

\* "Compact superseded ops immediately": first_op and last_op are the op_ids
\* of the first and the last operation of the batch
Compact(st, bucket, first_op, last_op) ==
    LET S == {r \in DOMAIN st.oplog : r.superseded = 1 /\ r.bucket = bucket
                                        /\ r.op_id >= first_op /\ r.op_id <= last_op}
    IN  [oplog   |-> DeleteRows(st.oplog, S),
         buckets |-> [st.buckets EXCEPT ![bucket].add_checksum = @ + SumHash(st.oplog, S)]]

\* insert_bucket_operations setting last_op to the op_id of the first operation
InsertKeepsFirstOp(st, bucket, ops) ==
    LET st0 == [st EXCEPT !.buckets =
                    IF bucket \in DOMAIN st.buckets THEN st.buckets
                    ELSE [n \in DOMAIN st.buckets \cup {bucket} |->
                            IF n = bucket THEN DefaultBucket ELSE st.buckets[n]]]
        st1 == ApplyOps(st0, bucket, ops, 1)
    IN  IF Len(ops) = 0 THEN st1
        ELSE Compact([st1 EXCEPT !.buckets[bucket].last_op = ops[1].op_id],
                     bucket, ops[1].op_id, ops[Len(ops)].op_id)

insert_bucket_operations(st, bucket, ops) ==
    LET st0 == [st EXCEPT !.buckets =
                    IF bucket \in DOMAIN st.buckets THEN st.buckets
                    ELSE [n \in DOMAIN st.buckets \cup {bucket} |->
                            IF n = bucket THEN DefaultBucket ELSE st.buckets[n]]]
        st1 == ApplyOps(st0, bucket, ops, 1)
    IN  IF Len(ops) = 0 THEN st1
        ELSE Compact([st1 EXCEPT !.buckets[bucket].last_op = ops[Len(ops)].op_id],
                     bucket, ops[1].op_id, ops[Len(ops)].op_id)

\* insert_operation: the envelope is a sequence of packets [bucket, data]
RECURSIVE InsertPackets(_, _, _)
InsertPackets(st, envelope, i) ==
    IF i > Len(envelope) THEN st
    ELSE InsertPackets(
            insert_bucket_operations(st, envelope[i].bucket, envelope[i].data),
            envelope, i + 1)

insert_operation(st, envelope) == InsertPackets(st, envelope, 1)

(***************************************************************************)
(* operations.rs: clear_remove_ops, delete_pending_buckets, delete_bucket. *)
(***************************************************************************)
\* one iteration of the loop with delete_statement but without update_statement
ClearRemoveForgets(st, name) ==
    LET applied == st.buckets[name].last_applied_op
    IN  [st EXCEPT !.oplog = DeleteRows(st.oplog,
            {r \in DOMAIN st.oplog :
                (r.superseded = 1 \/ r.op # OP_PUT) /\ r.bucket = name /\ r.op_id <= applied})]

\* one iteration of the loop of clear_remove_ops: update_statement, delete_statement
ClearRemoveBucket(st, name) ==
    LET applied == st.buckets[name].last_applied_op
        S == {r \in DOMAIN st.oplog :
                (r.superseded = 1 \/ r.op # OP_PUT) /\ r.bucket = name /\ r.op_id <= applied}
    IN  [oplog   |-> DeleteRows(st.oplog, S),
         buckets |-> [st.buckets EXCEPT ![name].add_checksum = @ + SumHash(st.oplog, S)]]

RECURSIVE ClearRemoveLoop(_, _)
ClearRemoveLoop(st, names) ==
    IF names = {} THEN st
    ELSE LET name == CHOOSE n \in names : TRUE
         IN  ClearRemoveLoop(ClearRemoveBucket(st, name), names \ {name})

\* SELECT name, last_applied_op FROM ps_buckets WHERE pending_delete = 0, and the loop
clear_remove_ops(st) ==
    ClearRemoveLoop(st, {n \in DOMAIN st.buckets : st.buckets[n].pending_delete = 0})

\* the WHERE clause without last_op >= target_op
DrainedAnyTarget(b) == b.pending_delete = 1 /\ b.last_applied_op = b.last_op

\* the WHERE clause without last_applied_op = last_op
DrainedUnapplied(b) == b.pending_delete = 1 /\ b.last_op >= b.target_op

\* pending_delete = 1 AND last_applied_op = last_op AND last_op >= target_op
Drained(b) ==
    b.pending_delete = 1 /\ b.last_applied_op = b.last_op /\ b.last_op >= b.target_op

delete_pending_buckets(st) ==
    LET gone == {n \in DOMAIN st.buckets : Drained(st.buckets[n])}
    IN  [oplog   |-> DeleteRows(st.oplog, {r \in DOMAIN st.oplog : r.bucket \in gone}),
         buckets |-> [n \in DOMAIN st.buckets \ gone |-> st.buckets[n]]]

\* format!("$delete_{}_{}", name, id.hyphenated())
SentinelName(name, id) == "$delete_" \o name \o "_" \o id

\* Uuid::new_v4(): the n-th uuid drawn differs from every earlier one
Uuid(n) == "uuid" \o ToString(n)

delete_bucket(st, name, id) ==
    LET new_name == SentinelName(name, id)
        S1   == {r \in DOMAIN st.oplog :
                    r.op = OP_PUT /\ r.superseded = 0 /\ r.bucket = name}
        log1 == UpdateRows(st.oplog, S1,
                    [r \in S1 |-> [r EXCEPT !.op = OP_REMOVE, !.data = NULL,
                                            !.bucket = new_name]])
        S2   == {r \in DOMAIN log1 : r.bucket = name}
        log2 == UpdateRows(log1, S2, [r \in S2 |-> [r EXCEPT !.bucket = new_name]])
        ids  == {r.op_id : r \in {q \in DOMAIN log2 : q.bucket = new_name}}
        row  == [DefaultBucket EXCEPT !.pending_delete = 1,
                                      !.last_op = IF ids = {} THEN 0 ELSE Max(ids)]
    IN  [oplog   |-> log2,
         buckets |-> [n \in (DOMAIN st.buckets \ {name}) \cup {new_name} |->
                        IF n = new_name THEN row ELSE st.buckets[n]]]

(***************************************************************************)
(* sync_local.rs: can_update_local, sync_local.                            *)
(***************************************************************************)
\* can_update_local with '$local' exempt from the target test
CanUpdateSkipsLocal(buckets, crud) ==
    /\ ~ \E n \in DOMAIN buckets :
            /\ buckets[n].target_op > buckets[n].last_op
            /\ n # LocalBucket /\ buckets[n].pending_delete = 0
    /\ crud = 0

can_update_local(buckets, crud) ==
    /\ ~ \E n \in DOMAIN buckets :
            /\ buckets[n].target_op > buckets[n].last_op
            /\ (n = LocalBucket \/ buckets[n].pending_delete = 0)
    /\ crud = 0

\* util: internal_table_name
internal_table_name(type) == "ps_data__" \o type

\* the (row_type, row_id) groups of the query: a row of ps_buckets, an entry b of
\* it past last_applied_op, an entry r of the same row, both not superseded
Touched(buckets, oplog) ==
    {<<b.row_type, b.row_id>> : b \in
        {b \in DOMAIN oplog :
            /\ b.bucket \in DOMAIN buckets
            /\ b.op_id > buckets[b.bucket].last_applied_op
            /\ b.superseded = 0
            /\ b.row_type # NULL /\ b.row_id # NULL}}

\* the entries r of a group that pass FILTER (WHERE r.op = 3)
LivePuts(oplog, row) ==
    {r \in DOMAIN oplog :
        r.superseded = 0 /\ r.op = OP_PUT /\ r.row_type = row[1] /\ r.row_id = row[2]}

\* r.data of any entry that passes the filter, as without max()
DataOfAny(oplog, row) == {r.data : r \in LivePuts(oplog, row)}

\* r.data beside max(r.op_id) FILTER (WHERE r.op=3): the data of an entry that
\* holds the maximum (of whichever one, when several do)
DataOf(oplog, row) ==
    LET puts == LivePuts(oplog, row)
        top  == Max({r.op_id : r \in puts})
    IN  {r.data : r \in {p \in puts : p.op_id = top}}

\* the rows the loop upserts (buckets # "[]") and the ones it deletes
Upserts(buckets, oplog) == {row \in Touched(buckets, oplog) : LivePuts(oplog, row) # {}}
Deletes(buckets, oplog) == {row \in Touched(buckets, oplog) : LivePuts(oplog, row) = {}}

\* the data column of every upserted row, one choice per row
Projections(buckets, oplog) ==
    LET ups == Upserts(buckets, oplog)
        all == UNION {DataOf(oplog, row) : row \in ups}
    IN  {f \in [ups -> all] : \A row \in ups : f[row] \in DataOf(oplog, row)}

\* DELETE FROM <table> WHERE id = ? / REPLACE INTO <table>(id, data)
\* on either ps_data__<type> (typed = TRUE) or ps_untyped
ApplyRows(table, tabs, typed, dels, f) ==
    LET Mine(row) == (internal_table_name(row[1]) \in tabs) = typed
        Name(row) == IF typed THEN <<internal_table_name(row[1]), row[2]>> ELSE row
        gone == {Name(row) : row \in {x \in dels : Mine(x)}}
        ups  == {row \in DOMAIN f : Mine(row)}
        put  == {Name(row) : row \in ups}
    IN  [k \in (DOMAIN table \ gone) \cup put |->
            IF k \in put THEN f[CHOOSE row \in ups : Name(row) = k] ELSE table[k]]

\* the UPDATE with AND pending_delete = 0 added to its WHERE clause
MarkAppliedActive(buckets) ==
    [n \in DOMAIN buckets |->
        IF buckets[n].pending_delete = 0
        THEN [buckets[n] EXCEPT !.last_applied_op = buckets[n].last_op]
        ELSE buckets[n]]

\* UPDATE ps_buckets SET last_applied_op = last_op WHERE last_applied_op != last_op
MarkApplied(buckets) ==
    [n \in DOMAIN buckets |-> [buckets[n] EXCEPT !.last_applied_op = buckets[n].last_op]]

\* datetime()
Datetimes == {"2024-01-01 00:00:00"}

\* insert or replace into ps_kv(key, value) values('last_synced_at', datetime())
SetSynced(kv, t) ==
    [k \in DOMAIN kv \cup {"last_synced_at"} |-> IF k = "last_synced_at" THEN t ELSE kv[k]]

\* sync_local whose gate does not look at ps_crud
SyncIgnoresCrud(s) ==
    IF ~can_update_local(s.buckets, 0)
    THEN {[ret |-> 0, buckets |-> s.buckets, data |-> s.data,
           untyped |-> s.untyped, kv |-> s.kv]}
    ELSE {[ret     |-> 1,
           buckets |-> MarkApplied(s.buckets),
           data    |-> ApplyRows(s.data, s.tables, TRUE, Deletes(s.buckets, s.oplog), f),
           untyped |-> ApplyRows(s.untyped, s.tables, FALSE, Deletes(s.buckets, s.oplog), f),
           kv      |-> SetSynced(s.kv, t)] :
            f \in Projections(s.buckets, s.oplog), t \in Datetimes}

\* sync_local on the tables s = [buckets, oplog, data, untyped, crud, kv, tables]:
\* what it may return and leave behind (the oplog is only read).  Every live PUT
\* of the model carries data, so that column_text(2) never fails.
sync_local(s) ==
    IF ~can_update_local(s.buckets, s.crud)
    THEN {[ret |-> 0, buckets |-> s.buckets, data |-> s.data,
           untyped |-> s.untyped, kv |-> s.kv]}
    ELSE {[ret     |-> 1,
           buckets |-> MarkApplied(s.buckets),
           data    |-> ApplyRows(s.data, s.tables, TRUE, Deletes(s.buckets, s.oplog), f),
           untyped |-> ApplyRows(s.untyped, s.tables, FALSE, Deletes(s.buckets, s.oplog), f),
           kv      |-> SetSynced(s.kv, t)] :
            f \in Projections(s.buckets, s.oplog), t \in Datetimes}

(***************************************************************************)
(* What the server sends.  Operation n of the server's sequence has op_id  *)
(* n, its own checksum and (a PUT) its own data; a MOVE may carry a        *)
(* target, a later MOVE a lower one.                                       *)
(***************************************************************************)
TargetAt(n) == IF n <= MaxOpId THEN MaxOpId + 1 - n ELSE 0
Checksum(n) == 2 ^ (n - 1)
Data(n) == "d" \o ToString(n)

Op(n, kind, type, id, data) ==
    [op_id |-> n, op |-> kind, object_type |-> type, object_id |-> id,
     checksum |-> Checksum(n), data |-> data, subkey |-> NULL]

OpsAt(n) ==
    {Op(n, "PUT", t, i, Data(n)) : t \in RowTypes, i \in RowIds}
    \cup {Op(n, "REMOVE", t, i, NULL) : t \in RowTypes, i \in RowIds}
    \cup {Op(n, "MOVE", NULL, NULL, TargetJson(TargetAt(n)))}
    \cup {Op(n, "MOVE", t, i, NULL) : t \in RowTypes, i \in RowIds}
    \cup {Op(n, "CLEAR", NULL, NULL, NULL)}

\* what a run sends to which bucket: "general" sends every kind to A and PUT and
\* REMOVE to B, "rows" sends PUT and REMOVE to both, "single" sends to A only,
\* every kind but the MOVE that carries a target
Sendable(mode, b, o) ==
    CASE mode = "general" -> b = "A" \/ o.op \in {"PUT", "REMOVE"}
      [] mode = "rows"    -> o.op \in {"PUT", "REMOVE"}
      [] mode = "single"  -> b = "A" /\ (o.op = "MOVE" => o.data = NULL)

\* the batches of n operations with op_ids first, first + 1, ...
RECURSIVE Batches(_, _)
Batches(first, n) ==
    IF n = 0 THEN {<< >>}
    ELSE {Append(s, o) : s \in Batches(first, n - 1), o \in OpsAt(first + n - 1)}

\* a batch cut into the packets of an envelope: a packet ends at i when i is a cut
RECURSIVE Packets(_, _, _, _, _)
Packets(ops, bucketOf, cuts, i, acc) ==
    IF i > Len(ops) THEN acc
    ELSE IF i = 1 \/ (i - 1) \in cuts
         THEN Packets(ops, bucketOf, cuts, i + 1,
                      Append(acc, [bucket |-> bucketOf[i], data |-> <<ops[i]>>]))
         ELSE Packets(ops, bucketOf, cuts, i + 1,
                      [acc EXCEPT ![Len(acc)].data = Append(@, ops[i])])

\* the envelopes of one batch: a bucket for every operation, a cut wherever the
\* bucket changes and possibly elsewhere
EnvelopesOf(mode, ops) ==
    LET n == Len(ops)
        BucketsOf == {f \in [1..n -> ServerBuckets] :
                        \A i \in 1..n : Sendable(mode, f[i], ops[i])}
        CutsOf(f) == {c \in SUBSET (1..(n - 1)) :
                        \A i \in 1..(n - 1) : f[i] # f[i + 1] => i \in c}
    IN  UNION {{Packets(ops, f, c, 1, << >>) : c \in CutsOf(f)} : f \in BucketsOf}

Envelopes(mode, first, n) ==
    IF n = 0
    THEN {<<[bucket |-> b, data |-> << >>]>> :
            b \in {x \in ServerBuckets : mode # "single" \/ x = "A"}}
    ELSE UNION {EnvelopesOf(mode, ops) : ops \in Batches(first, n)}

\* the operations an envelope holds for a bucket, in order
RECURSIVE OpsFor(_, _, _)
OpsFor(envelope, b, i) ==
    IF i > Len(envelope) THEN << >>
    ELSE (IF envelope[i].bucket = b THEN envelope[i].data ELSE << >>)
            \o OpsFor(envelope, b, i + 1)

Max2(a, b) == IF a > b THEN a ELSE b

\* the greatest target a MOVE of ops carries, 0 when none does
MaxTarget(ops) ==
    LET ts == {TargetOf(ops[i].data) :
                i \in {j \in 1..Len(ops) : ops[j].op = "MOVE" /\ ops[j].data # NULL}}
    IN  IF ts = {} THEN 0 ELSE Max(ts)

\* the server's checksum of a bucket after ops: a CLEAR discards what came before
RECURSIVE SumSince(_, _, _)
SumSince(acc, ops, i) ==
    IF i > Len(ops) THEN acc
    ELSE SumSince(IF ops[i].op = "CLEAR" THEN ops[i].checksum ELSE acc + ops[i].checksum,
                  ops, i + 1)

(***************************************************************************)
(* The state machine.                                                      *)
(***************************************************************************)
NoTable == [k \in {} |-> NULL]
NoBuckets == [n \in {} |-> DefaultBucket]

\* an entry-point call: its name, what it returned, and (insert_operation) the
\* bucket, kind and checksum of the last operation of the envelope
Call(name, ret, bucket, op, checksum) ==
    [name |-> name, ret |-> ret, bucket |-> bucket, op |-> op, checksum |-> checksum]

\* history of a run: the next op_id of the server; per bucket name, since the
\* bucket was created, the server's checksum (sum), whether it was sent a CLEAR
\* (cleared), the greatest target sent (promised) and the operations sent (hist,
\* kept when the server may re-deliver); the re-deliveries made (again); per
\* sentinel of a bucket deleted while it held live PUTs, the rows of those PUTs
\* and how far its removal has come (sentinels); and the loop of a
\* clear_remove_ops that runs one iteration at a time: whether its statement is
\* open and the rows of ps_buckets it has returned (gc)
NoHistory ==
    [gc        |-> [open |-> FALSE, seen |-> {}],
     next      |-> 1,
     sum       |-> [b \in ServerBuckets |-> 0],
     cleared   |-> {},
     promised  |-> [b \in ServerBuckets |-> 0],
     hist      |-> [b \in ServerBuckets |-> << >>],
     again     |-> 0,
     sentinels |-> [n \in {} |-> NULL]]

Empty ==
    /\ ps_buckets = NoBuckets
    /\ ps_oplog = NoRows
    /\ ps_data = NoTable
    /\ ps_untyped = NoTable
    /\ ps_crud = 0
    /\ ps_kv = NoTable
    /\ uuids = 0
    /\ last = Call("open", "ok", NULL, NULL, 0)
    /\ srv = NoHistory

Init ==
    /\ Empty
    /\ tables = {internal_table_name(t) : t \in RowTypes}

St == [oplog |-> ps_oplog, buckets |-> ps_buckets]

Tabs ==
    [buckets |-> ps_buckets, oplog |-> ps_oplog, data |-> ps_data,
     untyped |-> ps_untyped, crud |-> ps_crud, kv |-> ps_kv, tables |-> tables]

\* a call leaves st = [oplog, buckets] in ps_oplog and ps_buckets
Leaves(st) == ps_oplog' = st.oplog /\ ps_buckets' = st.buckets

\* the operations of the last packet of an envelope
LastOf(envelope) == envelope[Len(envelope)].data

\* the history after the server has sent an envelope of n operations
Sent(envelope, n, keep) ==
    [srv EXCEPT
        !.next     = @ + n,
        !.sum      = [b \in ServerBuckets |-> SumSince(@[b], OpsFor(envelope, b, 1), 1)],
        !.cleared  = @ \cup {b \in ServerBuckets :
                        \E i \in 1..Len(OpsFor(envelope, b, 1)) :
                            OpsFor(envelope, b, 1)[i].op = "CLEAR"},
        !.promised = [b \in ServerBuckets |-> Max2(@[b], MaxTarget(OpsFor(envelope, b, 1)))],
        !.hist     = [b \in ServerBuckets |->
                        IF keep THEN @[b] \o OpsFor(envelope, b, 1) ELSE @[b]]]

\* insert_operation(envelope), the envelope holding the next operations of the server
Ingest(mode, top, keep) ==
    \E n \in 0..MaxBatch :
        /\ srv.next + n - 1 <= top
        /\ \E envelope \in Envelopes(mode, srv.next, n) :
            LET o == LastOf(envelope)
                e == Len(o) = 0
            IN  /\ Leaves(insert_operation(St, envelope))
                /\ last' = Call("insert_operation", "ok", envelope[Len(envelope)].bucket,
                                IF e THEN NULL ELSE o[Len(o)].op,
                                IF e THEN 0 ELSE o[Len(o)].checksum)
                /\ srv' = Sent(envelope, n, keep)
        /\ UNCHANGED <<ps_data, ps_untyped, ps_crud, ps_kv, tables, uuids>>

InsertOperation == Ingest("general", MaxOpId, FALSE)

\* sync_local
SyncLocal ==
    \E o \in sync_local(Tabs) :
        /\ ps_buckets' = o.buckets
        /\ ps_data' = o.data
        /\ ps_untyped' = o.untyped
        /\ ps_kv' = o.kv
        /\ last' = Call("sync_local", o.ret, NULL, NULL, 0)
        /\ srv' = [srv EXCEPT !.sentinels =
                    [n \in DOMAIN @ |->
                        IF o.ret = 1 /\ @[n].stage = "pending"
                        THEN [@[n] EXCEPT !.stage = "synced"] ELSE @[n]]]
        /\ UNCHANGED <<ps_oplog, ps_crud, tables, uuids>>

\* clear_remove_ops
ClearRemoveOps ==
    /\ Leaves(clear_remove_ops(St))
    /\ last' = Call("clear_remove_ops", "ok", NULL, NULL, 0)
    /\ UNCHANGED <<ps_data, ps_untyped, ps_crud, ps_kv, tables, uuids, srv>>

\* delete_pending_buckets
DeletePendingBuckets ==
    /\ Leaves(delete_pending_buckets(St))
    /\ last' = Call("delete_pending_buckets", "ok", NULL, NULL, 0)
    /\ srv' = [srv EXCEPT !.sentinels =
                [n \in DOMAIN @ |->
                    IF @[n].stage = "synced" /\ n \notin DOMAIN ps_buckets'
                    THEN [@[n] EXCEPT !.stage = "reaped"] ELSE @[n]]]
    /\ UNCHANGED <<ps_data, ps_untyped, ps_crud, ps_kv, tables, uuids>>

\* the rows (row_type, row_id) that have a live PUT in a bucket
LiveRowsOf(oplog, bucket) ==
    {<<r.row_type, r.row_id>> :
        r \in {q \in DOMAIN oplog : q.bucket = bucket /\ q.op = OP_PUT /\ q.superseded = 0}}

\* delete_bucket(name)
DeleteBucket ==
    \E name \in ServerBuckets :
        /\ uuids < MaxDelete
        /\ LET id   == Uuid(uuids + 1)
               rows == LiveRowsOf(ps_oplog, name)
               new  == SentinelName(name, id)
           IN  /\ Leaves(delete_bucket(St, name, id))
               /\ last' = Call("delete_bucket", "ok", name, NULL, 0)
               /\ srv' = [srv EXCEPT
                            !.sum[name] = 0,
                            !.cleared = @ \ {name},
                            !.promised[name] = 0,
                            !.hist[name] = << >>,
                            !.sentinels =
                                IF rows = {} THEN @
                                ELSE [n \in DOMAIN @ \cup {new} |->
                                        IF n = new
                                        THEN [of |-> name, rows |-> rows, stage |-> "pending"]
                                        ELSE @[n]]]
        /\ uuids' = uuids + 1
        /\ UNCHANGED <<ps_data, ps_untyped, ps_crud, ps_kv, tables>>

Next ==
    \/ InsertOperation
    \/ SyncLocal
    \/ ClearRemoveOps
    \/ DeletePendingBuckets
    \/ DeleteBucket

Spec == Init /\ [][Next]_vars

(***************************************************************************)
(* The server re-delivers: one bucket, whose operations since it was       *)
(* created are kept, and a suffix of them may be sent again.               *)
(***************************************************************************)
InsertKept == Ingest("single", MaxOpId, TRUE)

\* insert_operation with the operations k..n of a bucket that has ingested 1..n
Redeliver ==
    \E b \in ServerBuckets :
        \E k \in 1..Len(srv.hist[b]) :
            LET ops == SubSeq(srv.hist[b], k, Len(srv.hist[b]))
            IN  /\ srv.again < MaxRedeliver
                /\ Leaves(insert_operation(St, <<[bucket |-> b, data |-> ops]>>))
                /\ last' = Call("insert_operation", "ok", b,
                                ops[Len(ops)].op, ops[Len(ops)].checksum)
                /\ srv' = [srv EXCEPT !.again = @ + 1]
                /\ UNCHANGED <<ps_data, ps_untyped, ps_crud, ps_kv, tables, uuids>>

NextRedeliver ==
    \/ InsertKept
    \/ Redeliver
    \/ SyncLocal
    \/ ClearRemoveOps
    \/ DeletePendingBuckets
    \/ DeleteBucket

SpecRedeliver == Init /\ [][NextRedeliver]_vars

(***************************************************************************)
(* Rows shared by buckets: the server sends PUT and REMOVE to two buckets, *)
(* and the schema may or may not hold a table for the row type.            *)
(***************************************************************************)
InitCross ==
    /\ Empty
    /\ tables \in {{}, {internal_table_name(t) : t \in RowTypes}}

InsertRows == Ingest("rows", MaxRowOpId, TRUE)

NextCross ==
    \/ InsertRows
    \/ SyncLocal
    \/ ClearRemoveOps

SpecCross == InitCross /\ [][NextCross]_vars

(***************************************************************************)
(* The gate: can_update_local and sync_local on any ps_buckets and ps_crud *)
(* contents, with an operation of bucket A waiting to be applied.          *)
(***************************************************************************)
GateNames == {LocalBucket, "A", SentinelName("A", Uuid(1))}

GateRows ==
    {[DefaultBucket EXCEPT !.last_op = l, !.target_op = t, !.pending_delete = p] :
        l \in 0..MaxGateOp, t \in 0..MaxGateOp, p \in {0, 1}}

InitGate ==
    /\ ps_buckets \in UNION {[S -> GateRows] : S \in SUBSET GateNames}
    /\ ps_oplog = IF "A" \in DOMAIN ps_buckets /\ ps_buckets["A"].last_op >= 1
                  THEN InsertRow(NoRows, NewRow("A", Op(1, "PUT", "t", "a", Data(1))))
                  ELSE NoRows
    /\ ps_data = NoTable
    /\ ps_untyped = NoTable
    /\ ps_crud \in {0, 1}
    /\ ps_kv = NoTable
    /\ tables = {internal_table_name(t) : t \in RowTypes}
    /\ uuids = 1
    /\ last = Call("open", "ok", NULL, NULL, 0)
    /\ srv = NoHistory

\* can_update_local, called on its own
CanUpdateLocal ==
    /\ last' = Call("can_update_local", can_update_local(ps_buckets, ps_crud), NULL, NULL, 0)
    /\ UNCHANGED <<db, uuids, srv>>

NextGate ==
    \/ CanUpdateLocal
    \/ SyncLocal

SpecGate == InitGate /\ [][NextGate]_vars

(***************************************************************************)
(* Reaping: insert_operation takes any bucket name, also the name of a     *)
(* sentinel, so that a sentinel may be sent operations and a target.       *)
(***************************************************************************)
\* the operations sent: a PUT, or a MOVE that carries a target
ReapOpsAt(n) ==
    {o \in OpsAt(n) : o.op = "PUT" \/ (o.op = "MOVE" /\ o.data # NULL)}

\* insert_operation with one packet for bucket A or for any row of ps_buckets
InsertInto ==
    \E b \in {"A"} \cup DOMAIN ps_buckets :
        \E n \in 1..MaxBatch :
            /\ srv.next + n - 1 <= MaxOpId
            /\ \E ops \in {x \in Batches(srv.next, n) :
                            \A i \in 1..n : x[i] \in ReapOpsAt(x[i].op_id)} :
                /\ Leaves(insert_operation(St, <<[bucket |-> b, data |-> ops]>>))
                /\ last' = Call("insert_operation", "ok", b, ops[n].op, ops[n].checksum)
                /\ srv' = [srv EXCEPT !.next = @ + n]
            /\ UNCHANGED <<ps_data, ps_untyped, ps_crud, ps_kv, tables, uuids>>

NextReap ==
    \/ InsertInto
    \/ SyncLocal
    \/ DeleteBucket
    \/ DeletePendingBuckets

SpecReap == Init /\ [][NextReap]_vars

(***************************************************************************)
(* Two CLEARs in a row: right after an envelope that ended with a CLEAR,   *)
(* the server sends the same bucket a CLEAR with the same checksum.        *)
(***************************************************************************)
ClearAgain ==
    /\ last.name = "insert_operation" /\ last.op = "CLEAR"
    /\ srv.next <= MaxOpId + 1
    /\ LET o        == [Op(srv.next, "CLEAR", NULL, NULL, NULL)
                            EXCEPT !.checksum = last.checksum]
           envelope == <<[bucket |-> last.bucket, data |-> <<o>>]>>
       IN  /\ Leaves(insert_operation(St, envelope))
           /\ last' = Call("insert_operation", "ok", last.bucket, o.op, o.checksum)
           /\ srv' = Sent(envelope, 1, FALSE)
    /\ UNCHANGED <<ps_data, ps_untyped, ps_crud, ps_kv, tables, uuids>>

NextClear ==
    \/ InsertOperation
    \/ ClearAgain
    \/ SyncLocal
    \/ ClearRemoveOps

SpecClear == Init /\ [][NextClear]_vars

(***************************************************************************)
(* Two buckets at once: the server has a batch for A and a batch for B,    *)
(* of any kinds of operation, and sends them in either order.  The call    *)
(* is recorded with its envelope.                                          *)
(***************************************************************************)
\* the operations of ops that go to bucket b, in order
RECURSIVE BatchOf(_, _, _, _)
BatchOf(ops, bucketOf, b, i) ==
    IF i > Len(ops) THEN << >>
    ELSE (IF bucketOf[i] = b THEN <<ops[i]>> ELSE << >>) \o BatchOf(ops, bucketOf, b, i + 1)

\* the envelope of two packets, the one of bucket b first
PairOf(a, b, first) ==
    IF first = "A"
    THEN <<[bucket |-> "A", data |-> a], [bucket |-> "B", data |-> b]>>
    ELSE <<[bucket |-> "B", data |-> b], [bucket |-> "A", data |-> a]>>

InsertPair ==
    \E n \in 2..MaxPair :
        /\ srv.next + n - 1 <= MaxPair + 1
        /\ \E ops \in Batches(srv.next, n) :
            \E f \in [1..n -> ServerBuckets] :
                \E first \in ServerBuckets :
                    LET a        == BatchOf(ops, f, "A", 1)
                        b        == BatchOf(ops, f, "B", 1)
                        envelope == PairOf(a, b, first)
                        o        == LastOf(envelope)
                    IN  /\ Len(a) > 0 /\ Len(b) > 0
                        /\ Leaves(insert_operation(St, envelope))
                        /\ last' = [envelope |-> envelope]
                                    @@ Call("insert_operation", "ok", envelope[2].bucket,
                                            o[Len(o)].op, o[Len(o)].checksum)
                        /\ srv' = Sent(envelope, n, FALSE)
        /\ UNCHANGED <<ps_data, ps_untyped, ps_crud, ps_kv, tables, uuids>>

NextOrder ==
    \/ InsertPair
    \/ SyncLocal
    \/ ClearRemoveOps

SpecOrder == Init /\ [][NextOrder]_vars

(***************************************************************************)
(* clear_remove_ops one iteration at a time ("Each iteration here may be   *)
(* run in a separate transaction"): the other entry points run between     *)
(* the iterations.  The statement over ps_buckets is stepped once per      *)
(* iteration and returns a row as it is then; which of the rows with       *)
(* pending_delete = 0 comes next is not fixed.                             *)
(***************************************************************************)
\* the rows the statement may still return
GcLeft ==
    {n \in DOMAIN ps_buckets : ps_buckets[n].pending_delete = 0 /\ n \notin srv.gc.seen}

\* clear_remove_ops is called: the statements are prepared
GcOpen ==
    /\ ~srv.gc.open
    /\ srv' = [srv EXCEPT !.gc = [open |-> TRUE, seen |-> {}]]
    /\ last' = Call("clear_remove_ops", "open", NULL, NULL, 0)
    /\ UNCHANGED <<db, uuids>>

\* statement.step() returns a row: one iteration
GcStep ==
    /\ srv.gc.open
    /\ \E name \in GcLeft :
        /\ Leaves(ClearRemoveBucket(St, name))
        /\ srv' = [srv EXCEPT !.gc.seen = @ \cup {name}]
        /\ last' = Call("clear_remove_ops", "row", name, NULL, 0)
    /\ UNCHANGED <<ps_data, ps_untyped, ps_crud, ps_kv, tables, uuids>>

\* statement.step() returns no row: clear_remove_ops returns
GcClose ==
    /\ srv.gc.open
    /\ GcLeft = {}
    /\ srv' = [srv EXCEPT !.gc = [open |-> FALSE, seen |-> {}]]
    /\ last' = Call("clear_remove_ops", "ok", NULL, NULL, 0)
    /\ UNCHANGED <<db, uuids>>

\* insert_operation with one packet, of any kinds of operation, for A or B
InsertOne ==
    \E b \in ServerBuckets :
        \E n \in 1..MaxBatch :
            /\ srv.next + n - 1 <= MaxOpId
            /\ \E ops \in Batches(srv.next, n) :
                /\ Leaves(insert_operation(St, <<[bucket |-> b, data |-> ops]>>))
                /\ last' = Call("insert_operation", "ok", b, ops[n].op, ops[n].checksum)
                /\ srv' = [srv EXCEPT !.next = @ + n]
            /\ UNCHANGED <<ps_data, ps_untyped, ps_crud, ps_kv, tables, uuids>>

NextGc ==
    \/ GcOpen
    \/ GcStep
    \/ GcClose
    \/ InsertOne
    \/ SyncLocal
    \/ DeleteBucket
    \/ DeletePendingBuckets

SpecGc == Init /\ [][NextGc]_vars

(***************************************************************************)
(* Checksums near the limits of 32 bits.  In this run hash and              *)
(* add_checksum are counted in units of 2^16, so that sums of 32-bit       *)
(* checksums, which SQLite adds as 64-bit integers, stay within the        *)
(* integers of the model checker: the value v stands for v * 2^16.         *)
(***************************************************************************)
\* the least and the greatest 32-bit signed integer (what column_int returns
\* and bind_int stores), in units of 2^16
I32Min == -(2 ^ 15)
I32Max == 2 ^ 15 - 1

\* the checksums the server sends: 2^30 and -2^30
BigChecksums == {2 ^ 14, -(2 ^ 14)}

\* a PUT, or a MOVE without a row, with a checksum near the limits
BigOpsAt(n) ==
    {[o EXCEPT !.checksum = c] :
        o \in {x \in OpsAt(n) : x.op = "PUT" \/ (x.op = "MOVE" /\ x.object_type = NULL
                                                    /\ x.data = NULL)},
        c \in BigChecksums}

RECURSIVE BigBatches(_, _)
BigBatches(first, n) ==
    IF n = 0 THEN {<< >>}
    ELSE {Append(s, o) : s \in BigBatches(first, n - 1), o \in BigOpsAt(first + n - 1)}

\* insert_operation with one packet for bucket A
InsertBig ==
    \E n \in 1..MaxBatch :
        /\ srv.next + n - 1 <= MaxSumOpId
        /\ \E ops \in BigBatches(srv.next, n) :
            LET envelope == <<[bucket |-> "A", data |-> ops]>>
            IN  /\ Leaves(insert_operation(St, envelope))
                /\ last' = Call("insert_operation", "ok", "A", ops[n].op, ops[n].checksum)
                /\ srv' = Sent(envelope, n, FALSE)
        /\ UNCHANGED <<ps_data, ps_untyped, ps_crud, ps_kv, tables, uuids>>

NextSum ==
    \/ InsertBig
    \/ SyncLocal
    \/ ClearRemoveOps

SpecSum == Init /\ [][NextSum]_vars

(***************************************************************************)
(* Properties.                                                             *)
(***************************************************************************)
\* a bucket the server sends that has a row in ps_buckets, not pending delete
Active(b) == b \in DOMAIN ps_buckets /\ ps_buckets[b].pending_delete = 0

\* sum of hash over all entries of a bucket, and over its live ones
TotalHash(b) == SumHash(ps_oplog, {r \in DOMAIN ps_oplog : r.bucket = b})
LiveHash(b) ==
    SumHash(ps_oplog, {r \in DOMAIN ps_oplog : r.bucket = b /\ r.superseded = 0})

\* the entries of a bucket
EntriesOf(b) == {r \in DOMAIN ps_oplog : r.bucket = b}

\* what the user tables hold for a row (row_type, row_id): its data, or NULL
StoredIn(data, untyped, row) ==
    IF internal_table_name(row[1]) \in tables
    THEN IF <<internal_table_name(row[1]), row[2]>> \in DOMAIN data
         THEN data[<<internal_table_name(row[1]), row[2]>>] ELSE NULL
    ELSE IF row \in DOMAIN untyped THEN untyped[row] ELSE NULL

Stored(row) == StoredIn(ps_data, ps_untyped, row)

AllRows == RowTypes \X RowIds

C2_VisibleIffLivePut ==
    (last.name = "sync_local" /\ last.ret = 1)
        => \A row \in AllRows : (Stored(row) # NULL) <=> (LivePuts(ps_oplog, row) # {})

\* C3: for every bucket and every non-NULL key, at most one oplog entry of that
\* bucket and key has superseded = 0.
C3_OneLivePerKey ==
    \A r \in DOMAIN ps_oplog :
        (r.key # NULL /\ r.superseded = 0)
            => /\ ps_oplog[r] = 1
               /\ \A q \in DOMAIN ps_oplog :
                    (q.superseded = 0 /\ q.bucket = r.bucket /\ q.key = r.key) => q = r

\* C3, witness: a suffix has been re-delivered to a bucket that still exists
\* and holds a live entry with a key.
C3_AfterRedelivery ==
    /\ srv.again > 0
    /\ last.name = "insert_operation" /\ last.op \in {"PUT", "REMOVE"}
    /\ Active(last.bucket)
    /\ \E r \in EntriesOf(last.bucket) : r.key # NULL /\ r.superseded = 0

\* the live PUT entries of a row, over all buckets
PutsOf(row) ==
    {r \in DOMAIN ps_oplog :
        r.op = OP_PUT /\ r.superseded = 0 /\ r.row_type = row[1] /\ r.row_id = row[2]}

\* the live entries of a row that are past their bucket's last_applied_op
FreshOf(row) ==
    {r \in DOMAIN ps_oplog :
        /\ r.superseded = 0 /\ r.row_type = row[1] /\ r.row_id = row[2]
        /\ r.bucket \in DOMAIN ps_buckets
        /\ r.op_id > ps_buckets[r.bucket].last_applied_op}

\* a step of sync_local that returns 1 writes, for every row that a live entry
\* not yet applied touches and that has live PUTs, the data of the live PUT
\* with the greatest op_id among all buckets
C4_Written ==
    (last'.name = "sync_local" /\ last'.ret = 1)
        => \A row \in AllRows :
            (FreshOf(row) # {} /\ PutsOf(row) # {})
                => \E p \in PutsOf(row) :
                    /\ \A q \in PutsOf(row) : q.op_id <= p.op_id
                    /\ StoredIn(ps_data', ps_untyped', row) = p.data

\* after a sync_local that returned 1, a row for which one bucket holds a live
\* REMOVE and another a live PUT is present, with the data of that PUT
C4_Kept ==
    (last.name = "sync_local" /\ last.ret = 1)
        => \A row \in AllRows :
            \A p \in PutsOf(row) :
                (\E r \in DOMAIN ps_oplog :
                    /\ r.op = OP_REMOVE /\ r.superseded = 0 /\ r.bucket # p.bucket
                    /\ r.row_type = row[1] /\ r.row_id = row[2])
                /\ (\A q \in PutsOf(row) : q.op_id <= p.op_id)
                    => Stored(row) = p.data

\* C4: when sync_local returns 1, a row touched by a live entry not yet applied
\* and holding live PUTs in several buckets gets the data of the live PUT with
\* the greatest op_id; and once the PUT of bucket B has been replaced by a
\* REMOVE while bucket A still holds a live PUT, the next sync_local that
\* returns 1 leaves the row present with A's data.
C4_GreatestPut == [](C4_Kept) /\ [][C4_Written]_vars

\* C4, witness: A ingested PUT 1, B ingested PUT 2 and then REMOVE 3 for the
\* same row; after sync_local has returned 1 the row holds the data of A's PUT.
C4_RemovedFromB ==
    /\ last.name = "sync_local" /\ last.ret = 1
    /\ Len(srv.hist["A"]) = 1 /\ srv.hist["A"][1].op = "PUT"
    /\ Len(srv.hist["B"]) = 2
    /\ srv.hist["B"][1].op = "PUT" /\ srv.hist["B"][2].op = "REMOVE"
    /\ srv.hist["B"][1].op_id > srv.hist["A"][1].op_id
    /\ Stored(<<"t", "a">>) = srv.hist["A"][1].data

\* C5 (as amended): can_update_local returns true if and only if no bucket that
\* is the local bucket '$local' or has pending_delete = 0 has target_op >
\* last_op, and ps_crud is empty.
C5_Gate ==
    last.name = "can_update_local"
        => (last.ret <=>
                /\ \A n \in DOMAIN ps_buckets :
                    (n = "$local" \/ ps_buckets[n].pending_delete = 0)
                        => ps_buckets[n].target_op <= ps_buckets[n].last_op
                /\ ps_crud = 0)

\* C5, witness: can_update_local has returned false with ps_crud empty and no
\* bucket but '$local' behind its target.
C5_LocalBlocks ==
    /\ last.name = "can_update_local" /\ last.ret = FALSE
    /\ ps_crud = 0
    /\ "$local" \in DOMAIN ps_buckets
    /\ ps_buckets["$local"].target_op > ps_buckets["$local"].last_op
    /\ \A n \in DOMAIN ps_buckets \ {"$local"} :
        ps_buckets[n].target_op <= ps_buckets[n].last_op

\* C5 as stated: can_update_local returns true if and only if no bucket other
\* than '$local' has target_op > last_op with pending_delete = 0, and ps_crud
\* is empty.
C5_NonLocalGate ==
    last.name = "can_update_local"
        => (last.ret <=>
                /\ \A n \in DOMAIN ps_buckets \ {"$local"} :
                    ps_buckets[n].pending_delete = 0
                        => ps_buckets[n].target_op <= ps_buckets[n].last_op
                /\ ps_crud = 0)

\* a sync_local step taken while can_update_local is false returns 0 and
\* changes no table
C6_Step ==
    (last'.name = "sync_local" /\ ~can_update_local(ps_buckets, ps_crud))
        => /\ last'.ret = 0
           /\ UNCHANGED <<ps_buckets, ps_oplog, ps_data, ps_untyped, ps_crud, ps_kv>>

\* C6: whenever can_update_local is false (in particular whenever ps_crud is not
\* empty), sync_local returns 0 and leaves every table unchanged: user tables,
\* ps_oplog, ps_buckets (last_applied_op included) and ps_kv (last_synced_at).
C6_GatedNoOp == [][C6_Step]_vars

\* C6, witness: sync_local has returned 0 with ps_crud not empty and nothing
\* else in its way, while a live PUT of bucket A waits to be applied; no row
\* was written and last_synced_at is not set.
C6_CrudBlocks ==
    /\ last.name = "sync_local" /\ last.ret = 0
    /\ ps_crud > 0
    /\ can_update_local(ps_buckets, 0)
    /\ FreshOf(<<"t", "a">>) # {} /\ PutsOf(<<"t", "a">>) # {}
    /\ Stored(<<"t", "a">>) = NULL
    /\ "last_synced_at" \notin DOMAIN ps_kv

\* C7, first part: an active bucket's target_op is at least the greatest target
\* a MOVE has carried into it since it was created
C7_Raised ==
    \A b \in ServerBuckets :
        Active(b) => ps_buckets[b].target_op >= srv.promised[b]

\* no step lowers the target_op of a bucket row that it leaves in place
C7_Monotone ==
    \A n \in DOMAIN ps_buckets \cap DOMAIN ps_buckets' :
        ps_buckets'[n].target_op >= ps_buckets[n].target_op

\* a sync_local step taken while an active bucket is behind a target it was sent
\* returns 0
C7_Blocked ==
    (/\ last'.name = "sync_local"
     /\ \E b \in ServerBuckets : Active(b) /\ ps_buckets[b].last_op < srv.promised[b])
        => last'.ret = 0

\* C7: once a MOVE whose data carries target T has been ingested into bucket B,
\* then as long as B exists with pending_delete = 0, target_op(B) >= T (no
\* operation lowers the target_op of an existing bucket), and every sync_local
\* call made while last_op(B) < T returns 0.
C7_TargetHolds == [](C7_Raised) /\ [][C7_Monotone /\ C7_Blocked]_vars

\* C7, witness: sync_local has returned 0 with ps_crud empty while bucket A is
\* behind the target a MOVE has carried into it.
C7_Waiting ==
    /\ last.name = "sync_local" /\ last.ret = 0
    /\ ps_crud = 0
    /\ Active("A")
    /\ srv.promised["A"] > ps_buckets["A"].last_op
    /\ ps_buckets["A"].target_op = srv.promised["A"]

\* what a sync_local on the tables s would leave in the user tables
RowsAfterSync(s) == {[data |-> o.data, untyped |-> o.untyped] : o \in sync_local(s)}

\* a re-delivery step keeps add_checksum plus the live hashes of the bucket, at
\* most one live entry per key, and the user rows a following sync_local gives
C8_Step ==
    (srv'.again # srv.again)
        => /\ ps_buckets'[last'.bucket].add_checksum
                + SumHash(ps_oplog', {r \in DOMAIN ps_oplog' :
                                        r.bucket = last'.bucket /\ r.superseded = 0})
                = ps_buckets[last'.bucket].add_checksum
                    + SumHash(ps_oplog, {r \in DOMAIN ps_oplog :
                                            r.bucket = last'.bucket /\ r.superseded = 0})
           /\ C3_OneLivePerKey'
           /\ RowsAfterSync(Tabs)' = RowsAfterSync(Tabs)

\* C8: insert_bucket_operations is idempotent on a re-delivered suffix: when a
\* bucket that has ingested operations 1..n ingests k..n again, add_checksum
\* plus the sum of its live hashes is as before, each key still has at most one
\* live entry, and a following sync_local gives the same user rows.
C8_Idempotent == [][C8_Step]_vars

\* C9: after a batch whose last operation is a CLEAR with checksum c has been
\* ingested into bucket B, every entry of B that was a PUT or REMOVE (every
\* entry with a key) has op = REMOVE, data = NULL and hash = 0, add_checksum(B)
\* = c and last_applied_op(B) = 0.
C9_ClearResets ==
    (last.name = "insert_operation" /\ last.op = "CLEAR")
        => /\ \A r \in EntriesOf(last.bucket) :
                r.key # NULL => (r.op = OP_REMOVE /\ r.data = NULL /\ r.hash = 0)
           /\ ps_buckets[last.bucket].add_checksum = last.checksum
           /\ ps_buckets[last.bucket].last_applied_op = 0

\* the entry a delete_bucket leaves for entry r under the sentinel name
Moved(r, new) ==
    IF r.op = OP_PUT /\ r.superseded = 0
    THEN [r EXCEPT !.bucket = new, !.op = OP_REMOVE, !.data = NULL]
    ELSE [r EXCEPT !.bucket = new]

\* a delete_bucket(B) step: no ps_buckets row and no entry is left under B, and
\* when B held live PUTs, the sentinel has pending_delete = 1 and holds B's
\* former entries, the live PUTs as live REMOVEs
C10_Renamed ==
    (uuids' # uuids)
        => /\ last'.bucket \notin DOMAIN ps_buckets'
           /\ \A r \in DOMAIN ps_oplog' : r.bucket # last'.bucket
           /\ LiveRowsOf(ps_oplog, last'.bucket) # {}
                => LET new == SentinelName(last'.bucket, Uuid(uuids'))
                   IN  /\ new \in DOMAIN ps_buckets'
                       /\ ps_buckets'[new].pending_delete = 1
                       /\ {r \in DOMAIN ps_oplog' : r.bucket = new}
                            = {Moved(r, new) : r \in EntriesOf(last'.bucket)}

\* the sentinel of a bucket that held live PUTs is in ps_buckets as long as no
\* sync_local has returned 1 since the delete_bucket
C10_Held ==
    \A n \in DOMAIN srv.sentinels :
        srv.sentinels[n].stage = "pending"
            => n \in DOMAIN ps_buckets /\ ps_buckets[n].pending_delete = 1

\* the first sync_local step that returns 1 after the delete_bucket leaves no
\* user row for the rows of B's live PUTs that have no live PUT (left)
C10_Deleted ==
    (last'.name = "sync_local" /\ last'.ret = 1)
        => \A n \in DOMAIN srv.sentinels :
            srv.sentinels[n].stage = "pending"
                => \A row \in srv.sentinels[n].rows :
                    PutsOf(row) = {} => StoredIn(ps_data', ps_untyped', row) = NULL

\* a delete_pending_buckets step after that sync_local removes the sentinel's
\* ps_buckets row and all of its entries
C10_Reaped ==
    (last'.name = "delete_pending_buckets")
        => \A n \in DOMAIN srv.sentinels :
            srv.sentinels[n].stage = "synced"
                => /\ n \notin DOMAIN ps_buckets'
                   /\ \A r \in DOMAIN ps_oplog' : r.bucket # n

\* C10: for a bucket B holding live PUTs: after delete_bucket(B) nothing carries
\* the name B and a sentinel with pending_delete = 1 holds B's former entries
\* (live PUTs turned into live REMOVEs); delete_pending_buckets does not reap
\* the sentinel before a sync_local has returned 1; after the next sync_local
\* that returns 1 every user row whose only live PUT was in B is deleted; and a
\* delete_pending_buckets after that removes the sentinel and its entries.
C10_DeleteBucket == [](C10_Held) /\ [][C10_Renamed /\ C10_Deleted /\ C10_Reaped]_vars

\* C10, witness: the sentinel of a bucket that held a live PUT, applied by a
\* sync_local that returned 1, has been reaped by delete_pending_buckets, and
\* the row of the PUT is gone from the user table.
C10_SentinelReaped ==
    /\ last.name = "delete_pending_buckets"
    /\ \E n \in DOMAIN srv.sentinels :
        /\ srv.sentinels[n].stage = "reaped"
        /\ n \notin DOMAIN ps_buckets
        /\ EntriesOf(n) = {}
        /\ srv.sentinels[n].rows # {}
        /\ \A row \in srv.sentinels[n].rows : Stored(row) = NULL

\* the rows of ps_buckets that C11 names
C11_Reapable(n) ==
    /\ ps_buckets[n].pending_delete = 1
    /\ ps_buckets[n].last_applied_op = ps_buckets[n].last_op
    /\ ps_buckets[n].last_op >= ps_buckets[n].target_op

\* a delete_pending_buckets step removes the rows C11 names and their entries,
\* and leaves every other row and every entry of every other bucket as it was
C11_Step ==
    (last'.name = "delete_pending_buckets")
        => /\ DOMAIN ps_buckets' = {n \in DOMAIN ps_buckets : ~C11_Reapable(n)}
           /\ \A n \in DOMAIN ps_buckets' : ps_buckets'[n] = ps_buckets[n]
           /\ DOMAIN ps_oplog' =
                {r \in DOMAIN ps_oplog :
                    ~(r.bucket \in DOMAIN ps_buckets /\ C11_Reapable(r.bucket))}
           /\ \A r \in DOMAIN ps_oplog' : ps_oplog'[r] = ps_oplog[r]

\* C11: delete_pending_buckets removes exactly the buckets with pending_delete
\* = 1 AND last_applied_op = last_op AND last_op >= target_op, together with
\* all of their oplog entries: afterwards no such ps_buckets row exists, and
\* every other ps_buckets row and every entry of every other bucket is unchanged.
C11_ReapsExactly ==
    /\ [](last.name = "delete_pending_buckets"
            => \A n \in DOMAIN ps_buckets : ~C11_Reapable(n))
    /\ [][C11_Step]_vars

\* C11, witness: delete_pending_buckets has removed a sentinel that a sync_local
\* had applied, with its entries, while bucket A, created again since, keeps
\* its row and its entries.
C11_ReapedBesideActive ==
    /\ last.name = "delete_pending_buckets"
    /\ \E n \in DOMAIN srv.sentinels :
        /\ srv.sentinels[n].stage = "reaped"
        /\ n \notin DOMAIN ps_buckets
        /\ EntriesOf(n) = {}
    /\ Active("A")
    /\ EntriesOf("A") # {}

C13_AllApplied ==
    (last.name = "sync_local" /\ last.ret = 1)
        => \A n \in DOMAIN ps_buckets :
            ps_buckets[n].last_applied_op = ps_buckets[n].last_op

\* C13, witness: sync_local has returned 1 with '$local', an active bucket and a
\* pending-delete sentinel in ps_buckets, each with last_op > 0.
C13_ThreeKinds ==
    /\ last.name = "sync_local" /\ last.ret = 1
    /\ DOMAIN ps_buckets = GateNames
    /\ ps_buckets["A"].pending_delete = 0
    /\ ps_buckets[SentinelName("A", Uuid(1))].pending_delete = 1
    /\ \A n \in GateNames :
        ps_buckets[n].last_op > 0 /\ ps_buckets[n].last_applied_op = ps_buckets[n].last_op

\* a step that ingests, right after a CLEAR, a second CLEAR with the same
\* checksum leaves the bucket's entries, add_checksum, last_applied_op and
\* target_op as the first CLEAR left them
C14_Step ==
    (/\ last.name = "insert_operation" /\ last.op = "CLEAR"
     /\ last'.name = "insert_operation" /\ last'.op = "CLEAR"
     /\ last'.bucket = last.bucket /\ last'.checksum = last.checksum
     /\ srv'.next = srv.next + 1)
        => /\ {r \in DOMAIN ps_oplog' : r.bucket = last.bucket} = EntriesOf(last.bucket)
           /\ \A r \in EntriesOf(last.bucket) : ps_oplog'[r] = ps_oplog[r]
           /\ ps_buckets'[last.bucket].add_checksum = ps_buckets[last.bucket].add_checksum
           /\ ps_buckets'[last.bucket].last_applied_op
                = ps_buckets[last.bucket].last_applied_op
           /\ ps_buckets'[last.bucket].target_op = ps_buckets[last.bucket].target_op

\* C14: CLEAR is idempotent: for any bucket state, ingesting a CLEAR with
\* checksum c and then, with no other operation in between, a second CLEAR with
\* the same checksum c yields the same state (entries of the bucket,
\* add_checksum, last_applied_op, target_op) as ingesting the CLEAR once.
C14_ClearIdempotent == [][C14_Step]_vars

\* the batch a step has sent to bucket b
SentTo(b) == OpsFor(last'.envelope, b, 1)

\* ab and ba, what either order of two batches leaves in [oplog, buckets], are
\* the same and are what the tables t hold, and a sync_local on them gives the
\* same user rows
SameEitherWay(ab, ba, t) ==
    /\ t.oplog = ab.oplog /\ t.buckets = ab.buckets
    /\ t.oplog = ba.oplog /\ t.buckets = ba.buckets
    /\ RowsAfterSync([t EXCEPT !.oplog = ab.oplog, !.buckets = ab.buckets])
        = RowsAfterSync([t EXCEPT !.oplog = ba.oplog, !.buckets = ba.buckets])

\* a step that ingests a batch for A and a batch for B leaves the ps_oplog and
\* ps_buckets that either order of the two leaves, and a following sync_local
\* gives the same user rows after either order
C15_Step ==
    (last'.name = "insert_operation")
        => SameEitherWay(insert_operation(St, PairOf(SentTo("A"), SentTo("B"), "A")),
                         insert_operation(St, PairOf(SentTo("A"), SentTo("B"), "B")),
                         Tabs')

\* C15: ingestion is order-insensitive across buckets: for two batches addressed
\* to different buckets A and B, ingesting A's batch then B's yields the same
\* ps_oplog and ps_buckets as ingesting B's then A's, and a following sync_local
\* yields the same user rows in both orders.
C15_OrderInsensitive == [][C15_Step]_vars

\* C15, witness: batches for A and B were ingested, both buckets hold a live PUT
\* of the same row, A's with the lower op_id, and sync_local has returned 1 and
\* left the row with the data of B's PUT.
C15_BothPut ==
    /\ last.name = "sync_local" /\ last.ret = 1
    /\ \E p, q \in PutsOf(<<"t", "a">>) :
        /\ p.bucket = "A" /\ q.bucket = "B" /\ p.op_id < q.op_id
        /\ Stored(<<"t", "a">>) = q.data

\* the kind code of a PUT or REMOVE operation
C16_Code(o) == IF o.op = "PUT" THEN OP_PUT ELSE OP_REMOVE

\* a step that ingests one PUT or REMOVE o into bucket b: the prior live entry of
\* b with o's key is there with superseded = 1, op = REMOVE and data = NULL, the
\* new entry is there, and every other entry is as it was
C16_Ingested(b, o) ==
    LET K     == KeyOf(o)
        prior == {r \in EntriesOf(b) : r.superseded = 0 /\ r.key = K}
    IN  /\ \A p \in prior :
            [p EXCEPT !.superseded = 1, !.op = OP_REMOVE, !.data = NULL]
                \in DOMAIN ps_oplog'
        /\ \E r \in DOMAIN ps_oplog' :
            /\ r.bucket = b /\ r.op_id = o.op_id /\ r.op = C16_Code(o)
            /\ r.key = K /\ r.hash = o.checksum /\ r.superseded = 0
        /\ \A r \in DOMAIN ps_oplog \ prior :
            r \in DOMAIN ps_oplog' /\ ps_oplog'[r] = ps_oplog[r]

C16_Step ==
    (last'.name = "insert_operation" /\ srv'.next = srv.next + 1)
        => \A b \in ServerBuckets :
            Len(srv'.hist[b]) > Len(srv.hist[b])
                => C16_Ingested(b, srv'.hist[b][Len(srv'.hist[b])])

\* C16: when insert_bucket_operations processes a PUT or REMOVE with key K in
\* bucket B, the prior live entry of B with key K (if any) ends with superseded
\* = 1, op = REMOVE (4) and data = NULL, and a new entry with the operation's
\* op_id, kind code (3 for PUT, 4 for REMOVE), key K, hash = checksum and
\* superseded = 0 is inserted; entries of other buckets and entries of B with
\* other keys are unchanged by this step.
C16_SupersededAsRemove == [][C16_Step]_vars

\* C17: in every reachable state, every oplog entry whose op code is MOVE (2)
\* has key = NULL (and row_type, row_id, data NULL) and superseded = 1, for any
\* ingested operations, MOVE operations that carry object_type and object_id
\* included, and after supersession of earlier entries.
C17_MoveHasNoKey ==
    \A r \in DOMAIN ps_oplog :
        r.op = OP_MOVE
            => /\ r.key = NULL /\ r.row_type = NULL /\ r.row_id = NULL /\ r.data = NULL
               /\ r.superseded = 1

\* C18: when every operation is delivered exactly once in ascending op_id order,
\* then between entry-point calls, for every active bucket b, add_checksum(b)
\* plus the sum of hash over ALL entries of b (superseded or not) is the sum of
\* the checksums of the operations ingested into b since, and including, its
\* most recent CLEAR (of all of them if b never received a CLEAR).
C18_SinceClear ==
    \A b \in ServerBuckets :
        Active(b) => ps_buckets[b].add_checksum + TotalHash(b) = srv.sum[b]

\* the entries of bucket b that an iteration of clear_remove_ops is to delete
C19_Garbage(b) ==
    {r \in EntriesOf(b) :
        (r.superseded = 1 \/ r.op # OP_PUT) /\ r.op_id <= ps_buckets[b].last_applied_op}

\* one iteration of clear_remove_ops, on bucket b
C19_Iteration(b) ==
    /\ ps_buckets[b].pending_delete = 0
    /\ DOMAIN ps_oplog' = DOMAIN ps_oplog \ C19_Garbage(b)
    /\ \A r \in DOMAIN ps_oplog' : ps_oplog'[r] = ps_oplog[r]
    /\ ps_buckets' = [ps_buckets EXCEPT
                        ![b].add_checksum = @ + SumHash(ps_oplog, C19_Garbage(b))]
    /\ ps_buckets'[b].add_checksum
            + SumHash(ps_oplog', {r \in DOMAIN ps_oplog' : r.bucket = b})
        = ps_buckets[b].add_checksum + TotalHash(b)
    /\ \A r \in DOMAIN ps_oplog :
        (r.op = OP_PUT /\ r.superseded = 0) => r \in DOMAIN ps_oplog'
    /\ UNCHANGED <<ps_data, ps_untyped>>

C19_Step ==
    (last'.name = "clear_remove_ops" /\ last'.ret = "row") => C19_Iteration(last'.bucket)

\* C19: clear_remove_ops stays self-consistent when other entry points run
\* between its per-bucket iterations: each iteration deletes from one active
\* bucket exactly the entries with (superseded = 1 OR op != PUT) AND op_id <=
\* that bucket's last_applied_op and adds exactly the sum of their hashes to the
\* bucket's add_checksum, so that add_checksum + sum of hash over the bucket's
\* entries is the same before and after; it never deletes a live PUT entry,
\* never touches a bucket with pending_delete = 1 and changes no user table row.
C19_SelfConsistent == [][C19_Step]_vars

\* C19, witness: the loop has just absorbed entries of bucket B into B's
\* add_checksum, after its iteration for A; since that iteration A has ingested
\* and applied operations, for it holds entries the iteration would have deleted.
C19_Interleaved ==
    /\ last.name = "clear_remove_ops" /\ last.ret = "row" /\ last.bucket = "B"
    /\ srv.gc.seen = {"A", "B"}
    /\ ps_buckets["B"].add_checksum > 0
    /\ Active("A")
    /\ C19_Garbage("A") # {}

\* x reduced modulo 2^32 into the signed 32-bit range, in units of 2^16
Wrap32(x) == ((x - I32Min) % (I32Max - I32Min + 1)) + I32Min

\* the hashes a bucket's add_checksum has absorbed: the checksums sent to the
\* bucket (none of them a CLEAR's) but for the ones still in the log
C20_Absorbed(b) == srv.sum[b] - TotalHash(b)

\* C20: checksum accumulation uses 32-bit signed wrapping addition: after any
\* sequence of ingestion, in-batch compaction and clear_remove_ops, add_checksum
\* of every bucket is the sum of the absorbed hashes reduced modulo 2^32 into
\* the signed range [-2^31, 2^31 - 1], and never leaves that range.
C20_Wraps32 ==
    \A b \in ServerBuckets :
        Active(b)
            => /\ ps_buckets[b].add_checksum \in I32Min..I32Max
               /\ ps_buckets[b].add_checksum = Wrap32(C20_Absorbed(b))

=============================================================================
